---- MODULE Spec2Model ----
(***************************************************************************)
(* Probability bounds of "Analyzing the Real-World Security of the         *)
(* Algorand Blockchain": the Sage notebook, in its two versions            *)
(* (src/proba.ipynb and src/unnamed/part_000).                             *)
(*                                                                         *)
(* Numbers.  Sage computes with exact integers and rationals and with      *)
(* 53-bit reals.  Here every quantity is an exact rational [num, den]      *)
(* with den > 0 (alpha = 0.2 is 1/5), and a value exp(x) is kept as its    *)
(* exponent x: exp is strictly increasing, so two such values compare as   *)
(* their exponents do.  Values of scipy's Poisson functions and of Sage's  *)
(* minimiser are described where they are used.                            *)
(***************************************************************************)
EXTENDS Integers, Sequences, FiniteSets, TLC

VARIABLES variant, steps, pc, out, err, call, ret

vars == <<variant, steps, pc, out, err, call, ret>>

(***************************************************************************)
(* Bounds of the model.                                                    *)
(***************************************************************************)
MaxE == 12
MaxT == 6
MaxMinNMant == 3
MaxGridE == 3
MaxGridT == 3
MaxQDen == 3
MaxCUnder == 5
MaxLawX == 2
MaxLawY == 2
MaxFar == 1

(***************************************************************************)
(* The two versions of the notebook.                                       *)
(***************************************************************************)
Variants == {"proba.ipynb", "part_000"}

(***************************************************************************)
(* Rationals.                                                              *)
(***************************************************************************)
Abs(n) == IF n < 0 THEN -n ELSE n

RECURSIVE GCD(_, _)
GCD(a, b) == IF b = 0 THEN a ELSE GCD(b, a % b)

\* n/d in lowest terms with a positive denominator (Sage's Rational)
Rat(n, d) ==
    LET g == GCD(Abs(n), Abs(d))
        s == IF d < 0 THEN -1 ELSE 1
    IN  [num |-> s * (n \div g), den |-> s * (d \div g)]

RatInt(n) == [num |-> n, den |-> 1]

RatAdd(a, b) ==
    LET g == GCD(a.den, b.den)
    IN  Rat(a.num * (b.den \div g) + b.num * (a.den \div g), a.den * (b.den \div g))

RatNeg(a) == [num |-> -a.num, den |-> a.den]

RatSub(a, b) == RatAdd(a, RatNeg(b))

RatMul(a, b) ==
    LET x == Rat(a.num, b.den)
        y == Rat(b.num, a.den)
    IN  [num |-> x.num * y.num, den |-> x.den * y.den]

\* defined for b # 0
RatDiv(a, b) == RatMul(a, Rat(b.den, b.num))

\* b**k for k >= 0, with 0**0 = 1 as in Python and Sage
IntPow(b, k) == IF k = 0 THEN 1 ELSE b ^ k

\* a**k for k >= 0: a power of a fraction in lowest terms is in lowest terms
RatPow(a, k) == [num |-> IntPow(a.num, k), den |-> IntPow(a.den, k)]

RatLt(a, b) == a.num * b.den < b.num * a.den

RatLeq(a, b) == a.num * b.den <= b.num * a.den

(***************************************************************************)
(* Parameters (cell d82ddb90).                                             *)
(***************************************************************************)
Step(name, E, t) == [name |-> name, E |-> E, t |-> t]

RefSteps ==
    << Step("soft", 2990, 2267),
       Step("cert", 1500, 1112),
       Step("next", 5000, 3838),
       Step("late", 500, 320),
       Step("redo", 2400, 1768),
       Step("down", 6000, 4560),
       Step("prop", 20, 1) >>

named_steps(table, name) == CHOOSE s \in {table[i] : i \in DOMAIN table} : s.name = name

\* alpha = 0.2, as the rational AlphaNum / AlphaDen
AlphaNum == 1
AlphaDen == 5

alpha == Rat(AlphaNum, AlphaDen)

p == RatSub(RatInt(1), alpha)

\* Nmin = minN = 1e12, as mantissa * 10^exponent
Sci(m, e) == [m |-> m, e |-> e]

Nmin == Sci(1, 12)

minN == Sci(1, 12)

(***************************************************************************)
(* What a call gives: a value, or the exception it raised.                 *)
(***************************************************************************)
NoValue == [none |-> TRUE]

Returned(v) == [ok |-> TRUE, val |-> v, exc |-> "none"]

Raised(e) == [ok |-> FALSE, val |-> NoValue, exc |-> e]

(***************************************************************************)
(* Event A.1 (cell c5eb2811): step2failure_formal.                         *)
(*                                                                         *)
(* scipy's poisson(lamY).sf(NN-1) is a float64 chosen by the environment:  *)
(* tail.zero says that it underflowed to 0.0, and otherwise tail.log2 is   *)
(* the floor of its base-2 logarithm (log2 x < -256 exactly when           *)
(* floor(log2 x) < -256).  What Sage's log gives for 0.0 (-Infinity or a   *)
(* ValueError) is tail.logzero.                                            *)
(***************************************************************************)
NN == 1500

NeglLog2Bound == 256

TailLog2s == {-695, -258, -257, -256, -255, -57}

TailValues ==
    {[zero |-> FALSE, log2 |-> k, logzero |-> "-"] : k \in TailLog2s}
        \cup {[zero |-> TRUE, log2 |-> 0, logzero |-> m] : m \in {"-Infinity", "ValueError"}}

\* the check with <= in place of <
negl_check_le(negl) ==
    IF negl.zero
    THEN IF negl.logzero = "ValueError" THEN "ValueError" ELSE "pass"
    ELSE IF negl.log2 <= -NeglLog2Bound THEN "pass" ELSE "AssertionError"

\* assert(log(float(negl),2).n() < -256): "pass", or the exception raised
negl_check(negl) ==
    IF negl.zero
    THEN IF negl.logzero = "ValueError" THEN "ValueError" ELSE "pass"
    ELSE IF negl.log2 < -NeglLog2Bound THEN "pass" ELSE "AssertionError"

\* p0 = E2/Nmin
p0(E2, NminV) == [num |-> E2, over |-> NminV]

\* lamY = alpha*E2 + p0, the rate of the adversarial count X
lamY(E2, NminV) == [rate |-> RatMul(alpha, RatInt(E2)), plus |-> p0(E2, NminV)]

\* lamZ = E2*(1-alpha) + p0, the rate of the honest count Y
lamZ(E2, NminV) ==
    [rate |-> RatMul(RatInt(E2), RatSub(RatInt(1), alpha)), plus |-> p0(E2, NminV)]

step2failure_formal(E2, T2_, NminV, tail) ==
    LET negl  == tail
        chk   == negl_check(negl)
        \* sum(too_many_honest_prob(i) for i in (0..NN)) + negl
        pf    == [X |-> lamY(E2, NminV), Y |-> lamZ(E2, NminV),
                  from |-> 0, to |-> NN, T2 |-> T2_, plus |-> negl]
    IN  IF chk # "pass"
        THEN Raised(chk)
        ELSE Returned([pf |-> pf,
                       checked |-> [dist |-> lamY(E2, NminV), at |-> NN - 1, sf |-> negl]])

(***************************************************************************)
(* The value of the sum, for given laws of the two counts.                 *)
(*                                                                         *)
(* The law of the count of rate lam is law[lam]: a function from the       *)
(* counts that have a probability other than 0 to that probability.  A     *)
(* probability is m + e * 2^-k (ENum(m, e)), with m and e rationals and    *)
(* 2^-k (k = law_k, one of EpsLog2s) so small against the rationals used   *)
(* that two such numbers compare first by m and then by e.  The            *)
(* functions of a law (poi, scipy's sf) are evaluated exactly, and a term  *)
(* of the sum at a count that has probability 0 is 0, so that the sum over *)
(* (0..NN) is the sum over the counts of the law that lie in 0..NN.        *)
(***************************************************************************)
ENum(m, e) == [main |-> m, eps |-> e]

EZero == ENum(RatInt(0), RatInt(0))

EAdd(a, b) == ENum(RatAdd(a.main, b.main), RatAdd(a.eps, b.eps))

\* a * r for a rational r
EScale(a, r) == ENum(RatMul(a.main, r), RatMul(a.eps, r))

ELeq(a, b) == RatLt(a.main, b.main) \/ (a.main = b.main /\ RatLeq(a.eps, b.eps))

RECURSIVE ESum(_, _)
ESum(f, S) ==
    IF S = {} THEN EZero
    ELSE LET i == CHOOSE j \in S : TRUE IN EAdd(f[i], ESum(f, S \ {i}))

RECURSIVE RatSum(_, _)
RatSum(f, S) ==
    IF S = {} THEN RatInt(0)
    ELSE LET i == CHOOSE j \in S : TRUE IN RatAdd(f[i], RatSum(f, S \ {i}))

\* floor(log2 r) for a rational r > 0
RECURSIVE FloorLog2(_)
FloorLog2(r) ==
    IF RatLeq(RatInt(2), r) THEN FloorLog2(RatMul(r, Rat(1, 2))) + 1
    ELSE IF RatLt(r, RatInt(1)) THEN FloorLog2(RatMul(r, RatInt(2))) - 1
    ELSE 0

\* poi(x, k) = x**k / (factorial(k) * exp(x)): P(X = k) for X of rate x
poi(law, x, k) == IF k \in DOMAIN law[x] THEN law[x][k] ELSE EZero

\* poisson(lam).sf(k) = P(count > k), which is 1 for k < 0, for the count X
poisson_sf_X(law, lam, k) ==
    ESum(law[lam], {i \in DOMAIN law[lam] : i > k})

\* poisson(lam).sf(k) for the count Y, whose probabilities are rationals
poisson_sf_Y(law, lam, k) ==
    RatSum(law[lam], {y \in DOMAIN law[lam] : y > k})

\* negl = poisson(lamY).sf(NN-1) as the float that is checked and added:
\* zero, the floor of its log2 and Sage's log of 0.0 as in TailValues, and
\* its value
negl_of(law, law_k, lam, mode) ==
    LET v == poisson_sf_X(law, lam, NN - 1)
    IN  [zero    |-> v = EZero,
         log2    |-> IF v = EZero THEN 0
                     ELSE IF v.main # RatInt(0) THEN FloorLog2(v.main)
                     ELSE FloorLog2(v.eps) - law_k,
         logzero |-> IF v = EZero THEN mode ELSE "-",
         val     |-> v]

\* the term with sf taken one count higher, at 2*T2 - 2*num_mal
too_many_honest_prob_shifted(law, lX, lZ, T2_, num_mal) ==
    EScale(poi(law, lX, num_mal), poisson_sf_Y(law, lZ, 2 * T2_ - 2 * num_mal))

\* poi(lamY, num_mal) * poisson(lamZ).sf(2*T2-2*num_mal-1)
too_many_honest_prob(law, lX, lZ, T2_, num_mal) ==
    EScale(poi(law, lX, num_mal), poisson_sf_Y(law, lZ, 2 * T2_ - 2 * num_mal - 1))

\* sum(too_many_honest_prob(i) for i in (0..NN)) + negl, for the sum pf
\* that step2failure_formal returns
pf_value(law, pf) ==
    LET I == {i \in DOMAIN law[pf.X] : pf.from <= i /\ i <= pf.to}
        term == [i \in I |-> too_many_honest_prob(law, pf.X, pf.Y, pf.T2, i)]
    IN  EAdd(ESum(term, I), pf.plus.val)

(***************************************************************************)
(* Events A.2 - A.6 (cell eb981bea): the Chernoff bound                    *)
(*   pf = exp(-(alpha*E - t)^2 / (alpha*E + t)),                           *)
(* kept as its exponent.                                                   *)
(***************************************************************************)
UnionIters == 250

chernoff_exponent(E, t) ==
    LET aE == RatMul(alpha, RatInt(E))
        d  == RatSub(aE, RatInt(t))
    IN  RatDiv(RatNeg(RatMul(d, d)), RatAdd(aE, RatInt(t)))

\* one turn of the loop over the steps
chernoff(v, step) ==
    Returned([pf      |-> chernoff_exponent(step.E, step.t),
              union   |-> IF v = "part_000" /\ step.name = "next" THEN UnionIters ELSE 1])

\* the steps the loop runs over: steps (proba.ipynb), steps[1:-1] (part_000)
chernoff_steps(v, table) ==
    IF v = "part_000" THEN SubSeq(table, 2, Len(table) - 1) ELSE table

(***************************************************************************)
(* Liveness (cell 139d7b64): live_fail_bound,                              *)
(*   pf = poisson(lambda_).cdf(t-1)                                        *)
(*          * exp(((t-1)*lambda_*2 + t-1) / (2*minN*p)).                   *)
(* minN is mantissa * 10^exponent: the exponent of the correction factor   *)
(* is corr / 10^e10, and the value of scipy's cdf is kept as its           *)
(* arguments.                                                              *)
(***************************************************************************)
\* the correction with its sign turned
live_corr_negated(E, t, minNv) ==
    LET lambda_ == RatMul(RatInt(E), p)
    IN  RatNeg(RatDiv(RatAdd(RatMul(RatMul(RatInt(t - 1), lambda_), RatInt(2)), RatInt(t - 1)),
                      RatMul(RatInt(2 * minNv.m), p)))

\* the correction with t in place of the last t-1
live_corr_plus_t(E, t, minNv) ==
    LET lambda_ == RatMul(RatInt(E), p)
    IN  RatDiv(RatAdd(RatMul(RatMul(RatInt(t - 1), lambda_), RatInt(2)), RatInt(t)),
               RatMul(RatInt(2 * minNv.m), p))

live_corr(E, t, minNv) ==
    LET lambda_ == RatMul(RatInt(E), p)
    IN  RatDiv(RatAdd(RatMul(RatMul(RatInt(t - 1), lambda_), RatInt(2)), RatInt(t - 1)),
               RatMul(RatInt(2 * minNv.m), p))

live_fail_bound(step, minNv) ==
    LET lambda_ == RatMul(RatInt(step.E), p)
    IN  Returned([cdf  |-> [lam |-> lambda_, k |-> step.t - 1],
                  corr |-> live_corr(step.E, step.t, minNv),
                  e10  |-> minNv.e])

\* the sign of a value's logarithm relative to the raw cdf: 1, 0, -1 as the
\* correction factor is above, at or below 1
corr_sign(pf) == IF pf.corr.num > 0 THEN 1 ELSE IF pf.corr.num = 0 THEN 0 ELSE -1

c == 60

c_ == 15

\* B1: pf_gc = (1 - (1 - alpha) * (1 - pf_PV)) + pf_SV + pf_CV, log2 times c
B1(pf_PV, pf_SV, pf_CV) ==
    Returned([PV |-> pf_PV, SV |-> pf_SV, CV |-> pf_CV, times |-> c])

\* B2 with k*(k+1) in place of k*(k+1)/2
pf_nv_no_half(q, cc, k) ==
    LET r == RatSub(RatInt(1), q)
    IN  RatMul(RatInt(cc),
               RatAdd(RatAdd(RatPow(q, k + 1),
                             RatMul(RatInt(k + 1), RatMul(RatPow(q, k), r))),
                      RatMul(RatInt(k * (k + 1)),
                             RatMul(RatPow(q, k - 1), RatPow(r, 2)))))

\* B2 on a rational q:
\*   cc * (q^(k+1) + (k+1) * q^k * (1-q) + (k*(k+1)/2) * q^(k-1) * (1-q)^2)
pf_nv(q, cc, k) ==
    LET r == RatSub(RatInt(1), q)
    IN  RatMul(RatInt(cc),
               RatAdd(RatAdd(RatPow(q, k + 1),
                             RatMul(RatInt(k + 1), RatMul(RatPow(q, k), r))),
                      RatMul(Rat(k * (k + 1), 2),
                             RatMul(RatPow(q, k - 1), RatPow(r, 2)))))

\* B2 in the notebook: q is live_fail_bound's value for "next"
B2(pf_NV) == Returned([q |-> pf_NV, scale |-> c, trials |-> c_ + 1])

(***************************************************************************)
(* Inconsistency (cell 8e4ec9e1): red_blue_win_bound.                      *)
(*                                                                         *)
(* lnp is a symbolic expression in u,                                      *)
(*   lin * u - sum over E of logs[E] * log(1 + u/E),                       *)
(* kept as Sage keeps a sum: like terms collected, order immaterial.       *)
(* find_local_minimum (Sage, Brent's method) is taken on the integer grid  *)
(* of [a, b]: lnp is convex in u, so the grid minimiser is the first       *)
(* point where the derivative                                              *)
(*   lin - sum over E of logs[E] / (E + u)                                 *)
(* is not negative, or b when there is none.  The minimum value is kept    *)
(* as the expression and the point it is evaluated at.                     *)
(***************************************************************************)
UMax == 2000

\* gamma with Er in place of Eb
gamma_of_one_size(Tr, Er, Tb, Eb) == RatAdd(Rat(Tr, Er), Rat(Tb, Er))

gamma_of(Tr, Er, Tb, Eb) == RatAdd(Rat(Tr, Er), Rat(Tb, Eb))

delta_of(Tr, Er, Tb, Eb) == RatDiv(RatAdd(RatInt(1), alpha), gamma_of(Tr, Er, Tb, Eb))

\* Tr * log(1+u/Er) + Tb * log(1+u/Eb)
log_terms(Tr, Er, Tb, Eb) ==
    [e \in {Er, Eb} |-> (IF e = Er THEN Tr ELSE 0) + (IF e = Eb THEN Tb ELSE 0)]

lnp_of(v, Tr, Er, Tb, Eb) ==
    [lin  |-> IF v = "part_000"
              THEN RatAdd(RatInt(1), alpha)
              ELSE RatMul(delta_of(Tr, Er, Tb, Eb), gamma_of(Tr, Er, Tb, Eb)),
     logs |-> log_terms(Tr, Er, Tb, Eb)]

RECURSIVE log_slope(_, _, _)
log_slope(logs, S, u) ==
    IF S = {} THEN RatInt(0)
    ELSE LET e == CHOOSE x \in S : TRUE
         IN  RatAdd(Rat(logs[e], e + u), log_slope(logs, S \ {e}, u))

\* d lnp / du at u
lnp_slope(f, u) == RatSub(f.lin, log_slope(f.logs, DOMAIN f.logs, u))

RECURSIVE first_rising(_, _, _)
first_rising(f, lo, hi) ==
    IF lo >= hi THEN lo
    ELSE LET mid == (lo + hi) \div 2
         IN  IF lnp_slope(f, mid).num >= 0
             THEN first_rising(f, lo, mid)
             ELSE first_rising(f, mid + 1, hi)

\* (min_log2p, min_log2p_x)
find_local_minimum(f, a, b) ==
    LET x == IF lnp_slope(f, b).num < 0 THEN b ELSE first_rising(f, a, b)
    IN  [minval |-> [f |-> f, at |-> x], x |-> x]

red_blue_win_bound(v, Tr, Er, Tb, Eb) ==
    LET delta == delta_of(Tr, Er, Tb, Eb)
        m     == find_local_minimum(lnp_of(v, Tr, Er, Tb, Eb), 0, UMax)
    IN  IF v = "part_000" /\ ~RatLeq(delta, RatInt(1))
        THEN Raised("AssertionError")
        ELSE Returned(m.minval)

print_red_blue(v, table, step_r_name, step_b_name) ==
    LET step_r == named_steps(table, step_r_name)
        step_b == named_steps(table, step_b_name)
        r      == red_blue_win_bound(v, step_r.t, step_r.E, step_b.t, step_b.E)
    IN  IF ~r.ok THEN r
        ELSE Returned([log2p |-> r.val,
                       union |-> IF v = "part_000" /\ step_b_name = "next"
                                 THEN UnionIters ELSE 1])

(***************************************************************************)
(* A run of the notebook.  The cells are run in order; each computation    *)
(* of a cell prints its result (out) or raises, and an exception ends the  *)
(* cell it is raised in (err); the cells after it are run all the same,    *)
(* each on its own.  The table of steps is the reference table or one      *)
(* with other thresholds for some steps.                                   *)
(***************************************************************************)
AltSoft == {<<2990, 2267>>, <<2990, 1600>>}
AltCert == {<<1500, 1112>>, <<1500, 825>>}
AltNext == {<<5000, 3838>>, <<5000, 3000>>}
AltLate == {<<500, 320>>, <<500, 100>>}
AltRedo == {<<2400, 1768>>, <<2400, 800>>}
AltDown == {<<6000, 4560>>, <<6000, 2000>>}

StepTables ==
    { << Step("soft", s[1], s[2]), Step("cert", ce[1], ce[2]), Step("next", n[1], n[2]),
         Step("late", l[1], l[2]), Step("redo", r[1], r[2]), Step("down", d[1], d[2]),
         Step("prop", 20, 1) >> :
      s \in AltSoft, ce \in AltCert, n \in AltNext,
      l \in AltLate, r \in AltRedo, d \in AltDown }

StepNames == {RefSteps[i].name : i \in DOMAIN RefSteps}

Task(kind, a, b) == [kind |-> kind, a |-> a, b |-> b]

FirstCell == 3
LastCell == 6
Cells == FirstCell .. LastCell

\* the pairs of print_red_blue, in the order of the cell
RedBluePairs ==
    << <<"cert", "next">>, <<"cert", "down">>, <<"soft", "next">>, <<"soft", "redo">> >>

\* the computations of a cell, in order
cell_tasks(v, table, cell) ==
    CASE cell = 3 -> << Task("soft", table[1].name, "-") >>
      [] cell = 4 -> [i \in DOMAIN chernoff_steps(v, table) |->
                         Task("chernoff", chernoff_steps(v, table)[i].name, "-")]
      [] cell = 5 -> [i \in DOMAIN table |-> Task("live", table[i].name, "-")]
                         \o (IF v = "part_000"
                             THEN << Task("B1", "-", "-"), Task("B2", "-", "-") >>
                             ELSE << >>)
      [] cell = 6 -> [i \in DOMAIN RedBluePairs |->
                         Task("redblue", RedBluePairs[i][1], RedBluePairs[i][2])]

AllTasks ==
    {Task("soft", "soft", "-"), Task("B1", "-", "-"), Task("B2", "-", "-")}
        \cup {Task("chernoff", n, "-") : n \in StepNames}
        \cup {Task("live", n, "-") : n \in StepNames}
        \cup {Task("redblue", RedBluePairs[i][1], RedBluePairs[i][2]) : i \in DOMAIN RedBluePairs}

NoOutput == [has |-> FALSE, val |-> NoValue]

NoCall == [fn |-> "none"]

NoReturn == Raised("none")

Running == pc.cell \in Cells

Cur == cell_tasks(variant, steps, pc.cell)[pc.i]

\* the current computation ends with r: its result is printed and the cell
\* goes on, or its exception ends the cell
Finish(r) ==
    /\ out' = IF r.ok THEN [out EXCEPT ![Cur] = [has |-> TRUE, val |-> r.val]] ELSE out
    /\ err' = IF r.ok THEN err ELSE [err EXCEPT ![pc.cell] = r.exc]
    /\ pc' = IF r.ok /\ pc.i < Len(cell_tasks(variant, steps, pc.cell))
             THEN [pc EXCEPT !.i = @ + 1]
             ELSE [cell |-> pc.cell + 1, i |-> 1]
    /\ UNCHANGED <<variant, steps, call, ret>>

Init ==
    /\ variant \in Variants
    /\ steps \in StepTables
    /\ pc = [cell |-> FirstCell, i |-> 1]
    /\ out = [k \in AllTasks |-> NoOutput]
    /\ err = [k \in Cells |-> "none"]
    /\ call = NoCall
    /\ ret = NoReturn

RunSoftVote ==
    /\ Running
    /\ Cur.kind = "soft"
    /\ \E tail \in TailValues :
          Finish(step2failure_formal(named_steps(steps, Cur.a).E,
                                     named_steps(steps, Cur.a).t, Nmin, tail))

RunChernoff ==
    /\ Running
    /\ Cur.kind = "chernoff"
    /\ Finish(chernoff(variant, named_steps(steps, Cur.a)))

RunLive ==
    /\ Running
    /\ Cur.kind = "live"
    /\ Finish(live_fail_bound(named_steps(steps, Cur.a), minN))

RunB1 ==
    /\ Running
    /\ Cur.kind = "B1"
    /\ Finish(B1(live_fail_bound(named_steps(steps, "prop"), minN).val,
                 live_fail_bound(named_steps(steps, "soft"), minN).val,
                 live_fail_bound(named_steps(steps, "cert"), minN).val))

RunB2 ==
    /\ Running
    /\ Cur.kind = "B2"
    /\ Finish(B2(live_fail_bound(named_steps(steps, "next"), minN).val))

RunRedBlue ==
    /\ Running
    /\ Cur.kind = "redblue"
    /\ Finish(print_red_blue(variant, steps, Cur.a, Cur.b))

Next ==
    \/ RunSoftVote
    \/ RunChernoff
    \/ RunLive
    \/ RunB1
    \/ RunB2
    \/ RunRedBlue

Spec == Init /\ [][Next]_vars

(***************************************************************************)
(* The functions called on their own, on arguments from bounded sets.      *)
(***************************************************************************)
MinNs == {Sci(m, e) : m \in 1 .. MaxMinNMant, e \in {0, 12}}

\* the rationals n/d of [0, 1] with d <= MaxQDen
QGrid == UNION {{Rat(n, d) : n \in 0 .. d} : d \in 1 .. MaxQDen}

B2Inputs ==
    {<<q, cc, k>> : q \in QGrid, cc \in {1, c}, k \in 1 .. MaxCUnder}
        \cup {<<q, c, c_>> : q \in {Rat(0, 1), Rat(1, 3), Rat(1, 2), Rat(2, 3), Rat(1, 1)}}

\* committees (T, E): a small grid, the reference steps, a large committee
Committees ==
    {<<T, E>> : T \in 1 .. MaxGridT, E \in 1 .. MaxGridE}
        \cup {<<RefSteps[i].t, RefSteps[i].E>> : i \in DOMAIN RefSteps}
        \cup {<<11250, 15000>>}

FnInit ==
    /\ variant \in Variants
    /\ steps = RefSteps
    /\ pc = [cell |-> LastCell + 1, i |-> 1]
    /\ out = [k \in AllTasks |-> NoOutput]
    /\ err = [k \in Cells |-> "none"]
    /\ call = NoCall
    /\ ret = NoReturn

Idle == call = NoCall

Called(cl, r) ==
    /\ call' = cl
    /\ ret' = r
    /\ UNCHANGED <<variant, steps, pc, out, err>>

CallStep2Failure ==
    /\ Idle
    /\ \E e \in 1 .. MaxGridE, t \in 1 .. MaxGridT, n \in MinNs, x \in TailValues :
          Called([fn |-> "step2failure_formal", E2 |-> e, T2 |-> t, Nmin |-> n, tail |-> x],
                 step2failure_formal(e, t, n, x))

\* the exponents k of the small unit 2^-k of a law of X
EpsLog2s == {NeglLog2Bound, NeglLog2Bound + 4}

\* the counts of X about the cutoff NN of the sum
FarCounts == {NN - 1, NN, NN + 1}

\* laws of X: the same probability at each count of a set S of small
\* counts, less what is moved, in units of 2^-k, to the counts about NN
XLaws ==
    {[i \in S \cup {j \in FarCounts : f[j] > 0} |->
         IF i \in FarCounts THEN ENum(RatInt(0), RatInt(f[i]))
         ELSE ENum(Rat(1, Cardinality(S)),
                   IF i = CHOOSE m \in S : \A j \in S : m <= j
                   THEN RatNeg(RatSum([j \in FarCounts |-> RatInt(f[j])], FarCounts))
                   ELSE RatInt(0))] :
        S \in (SUBSET (0 .. MaxLawX)) \ {{}}, f \in [FarCounts -> 0 .. MaxFar]}

\* laws of Y: the same probability at each count of a set of small counts
YLaws ==
    {[y \in S |-> Rat(1, Cardinality(S))] : S \in (SUBSET (0 .. MaxLawY)) \ {{}}}

\* thresholds: small ones, and one that the counts about NN decide
LawT2s == (1 .. MaxGridT) \cup {NN + 1}

\* step2failure_formal for counts of given laws
CallStep2FailureOfLaws ==
    /\ Idle
    /\ \E e \in {RefSteps[1].E}, t \in LawT2s, k \in EpsLog2s,
          lx \in XLaws, ly \in YLaws, mode \in {"-Infinity", "ValueError"} :
          LET law == (lamY(e, Nmin) :> lx) @@ (lamZ(e, Nmin) :> ly)
              x   == negl_of(law, k, lamY(e, Nmin), mode)
          IN  Called([fn |-> "step2failure_formal", E2 |-> e, T2 |-> t, Nmin |-> Nmin,
                      tail |-> x, law |-> law, law_k |-> k],
                     step2failure_formal(e, t, Nmin, x))

CallChernoff ==
    /\ Idle
    /\ \E e \in 1 .. MaxE, t \in 1 .. MaxT :
          Called([fn |-> "chernoff", E |-> e, t |-> t],
                 chernoff(variant, Step("-", e, t)))

CallLiveFailBound ==
    /\ Idle
    /\ \E e \in 1 .. MaxE, t \in 1 .. MaxT, n \in MinNs :
          Called([fn |-> "live_fail_bound", E |-> e, t |-> t, minN |-> n],
                 live_fail_bound(Step("-", e, t), n))

CallPfNv ==
    /\ Idle
    /\ \E a \in B2Inputs :
          Called([fn |-> "pf_nv", q |-> a[1], c |-> a[2], c_ |-> a[3]],
                 Returned(pf_nv(a[1], a[2], a[3])))

CallRedBlue ==
    /\ Idle
    /\ \E r \in Committees, b \in Committees :
          Called([fn |-> "red_blue_win_bound",
                  Tr |-> r[1], Er |-> r[2], Tb |-> b[1], Eb |-> b[2]],
                 red_blue_win_bound(variant, r[1], r[2], b[1], b[2]))

FnNext ==
    \/ CallStep2Failure
    \/ CallStep2FailureOfLaws
    \/ CallChernoff
    \/ CallLiveFailBound
    \/ CallPfNv
    \/ CallRedBlue

FnSpec == FnInit /\ [][FnNext]_vars

(***************************************************************************)
(* Properties.                                                             *)
(***************************************************************************)
IsCall(f) == call.fn = f

Done == pc.cell > LastCell

\* C1: red_blue_win_bound(Tr, Er, Tb, Eb) raises, and returns no value,
\* whenever delta = (1+alpha)/(Tr/Er + Tb/Eb) is greater than 1
\* (with alpha = 1/5: whenever 6*Er*Eb > 5*(Tr*Eb + Tb*Er)).
C1_DeltaAboveOneRaises ==
    IsCall("red_blue_win_bound") =>
        (6 * call.Er * call.Eb > 5 * (call.Tr * call.Eb + call.Tb * call.Er)
            => ~ret.ok /\ ret.exc = "AssertionError")

\* C2: a Step with alpha*E >= t gets no Chernoff probability: every
\* probability the Chernoff loop prints is for a step with alpha*E < t
\* (with alpha = 1/5: E < 5*t).
C2_ChernoffOnlyInDomain ==
    \A n \in StepNames :
        out[Task("chernoff", n, "-")].has =>
            named_steps(steps, n).E < 5 * named_steps(steps, n).t

\* C3: step2failure_formal returns a pair only after the omitted tail
\* P(X >= NN) = PoissonSurvival(alpha*E2 + E2/Nmin, NN-1), NN = 1500, was found
\* to have log2 < -256 (the tail then added to the sum is the one checked),
\* and when the tail's log2 is not below -256 the call raises AssertionError
\* and returns nothing.
C3_TailCheckedBeforeSum ==
    IsCall("step2failure_formal") =>
        /\ (~call.tail.zero /\ call.tail.log2 >= -256)
               => (~ret.ok /\ ret.exc = "AssertionError" /\ ret.val = NoValue)
        /\ ret.ok =>
               /\ (call.tail.zero \/ call.tail.log2 < -256)
               /\ ret.val.checked =
                      [dist |-> [rate |-> Rat(call.E2, 5),
                                 plus |-> [num |-> call.E2, over |-> call.Nmin]],
                       at   |-> 1499,
                       sf   |-> call.tail]
               /\ ret.val.pf.plus = call.tail

C3_Witness ==
    /\ IsCall("step2failure_formal")
    /\ ~call.tail.zero
    /\ call.tail.log2 = -256
    /\ ~ret.ok

\* whether a computation of the run fails on its own parameters
own_failure(k) ==
    CASE k.kind = "soft"    -> err[3] # "none"
      [] k.kind = "redblue" -> ~print_red_blue(variant, steps, k.a, k.b).ok
      [] OTHER              -> FALSE

\* C4: when the run is over, a parameter set whose own computation fails has
\* no result and every other parameter set of the run has its result.
C4_FailureIsLocal ==
    Done =>
        \A cell \in Cells :
            \A i \in DOMAIN cell_tasks(variant, steps, cell) :
                LET k == cell_tasks(variant, steps, cell)[i]
                IN  out[k].has <=> ~own_failure(k)

\* C5: the probability live_fail_bound returns is at least the raw value
\* PoissonCDF(E*p, t-1): the exponent of the correction factor is never
\* negative, for every E > 0, t >= 1 and minN > 0.
C5_CorrectionNeverBelowOne ==
    IsCall("live_fail_bound") =>
        /\ ret.ok
        /\ ret.val.cdf = [lam |-> Rat(4 * call.E, 5), k |-> call.t - 1]
        /\ ret.val.corr.den > 0
        /\ ret.val.corr.num >= 0

C5_Witness ==
    /\ IsCall("live_fail_bound")
    /\ call.t >= 2
    /\ call.minN = minN
    /\ ret.ok
    /\ corr_sign(ret.val) = 1

\* C6 (as claimed): for every step, t = 1 included, the correction factor
\* is strictly greater than 1.
C6_CorrectionStrictlyAboveOne ==
    IsCall("live_fail_bound") => (ret.ok /\ corr_sign(ret.val) = 1)

\* C6 (amended): the correction factor is strictly greater than 1 exactly
\* when t >= 2; for t = 1 its exponent is 0, the factor is 1 and the
\* returned value is the raw Poisson CDF value.
C6_CorrectionStrictExceptThresholdOne ==
    IsCall("live_fail_bound") =>
        /\ ret.ok
        /\ call.t >= 2 => corr_sign(ret.val) = 1
        /\ call.t = 1 => corr_sign(ret.val) = 0

C6_Witness ==
    /\ IsCall("live_fail_bound")
    /\ call.t = 1
    /\ call.minN = minN
    /\ ret.ok
    /\ corr_sign(ret.val) = 0

\* C7: for fixed E and thresholds t1 < t2 the Chernoff probability computed
\* for t2 is strictly smaller than the one computed for t1.
C7_ChernoffDecreasesWithThreshold ==
    IsCall("chernoff") =>
        \A t2 \in (call.t + 1) .. (MaxT + 1) :
            RatLt(chernoff(variant, Step("-", call.E, t2)).val.pf, ret.val.pf)

\* binomial coefficient
RECURSIVE Choose(_, _)
Choose(n, k) ==
    IF k < 0 \/ k > n THEN 0
    ELSE IF k = 0 \/ k = n THEN 1
    ELSE Choose(n - 1, k - 1) + Choose(n - 1, k)

\* the number of the q.den^n equally likely outcomes of n independent trials,
\* each failing in q.num of q.den cases, in which exactly j trials fail
exactly_fail(n, j, q) == Choose(n, j) * IntPow(q.num, j) * IntPow(q.den - q.num, n - j)

RECURSIVE count_fail(_, _, _, _)
count_fail(n, lo, hi, q) ==
    IF lo > hi THEN 0 ELSE exactly_fail(n, lo, q) + count_fail(n, lo + 1, hi, q)

\* the probability that at least m of n independent trials fail
at_least_fail(n, m, q) == Rat(count_fail(n, m, n, q), IntPow(q.den, n))

\* C8 (as claimed): pf_nv is c times the probability that at least 3 of
\* c_+1 trials fail.
C8_AtLeastThreeFail ==
    IsCall("pf_nv") =>
        ret.val = RatMul(RatInt(call.c), at_least_fail(call.c_ + 1, 3, call.q))

\* C8 (amended): pf_nv is c times the probability that at most 2 of the
\* c_+1 trials succeed, that is, that at least c_-1 of them fail.
C8_AtMostTwoSucceed ==
    IsCall("pf_nv") =>
        ret.val = RatMul(RatInt(call.c), at_least_fail(call.c_ + 1, call.c_ - 1, call.q))

C8_Witness ==
    /\ IsCall("pf_nv")
    /\ call.c = c
    /\ call.c_ = c_
    /\ call.q = Rat(1, 2)
    /\ ret.val = Rat(c * 137, 65536)

\* C9: red_blue_win_bound(Tr, Er, Tb, Eb) and red_blue_win_bound(Tb, Eb, Tr, Er)
\* pass or fail the delta check together and return the same value.
C9_RedBlueSymmetric ==
    IsCall("red_blue_win_bound") =>
        ret = red_blue_win_bound(variant, call.Tb, call.Eb, call.Tr, call.Er)

C9_Witness ==
    /\ IsCall("red_blue_win_bound")
    /\ <<call.Tr, call.Er>> = <<1112, 1500>>
    /\ <<call.Tb, call.Eb>> = <<3838, 5000>>
    /\ ret.ok
    /\ ret.val.at \in 1 .. (UMax - 1)

\* C10: red_blue_win_bound reports an error, and returns no minimum, when
\* the minimiser found over [0, 2000] lands at the bound 2000.
C10_MinimizerAtBoundReported ==
    IsCall("red_blue_win_bound") =>
        (find_local_minimum(lnp_of(variant, call.Tr, call.Er, call.Tb, call.Eb), 0, 2000).x = 2000
            => ~ret.ok)

\* P(2X + Y >= 2*T2) for independent counts X and Y of the given laws
prob_2X_plus_Y(lx, ly, T2_) ==
    LET I == DOMAIN lx
        term == [i \in I |->
                    EScale(lx[i], RatSum(ly, {y \in DOMAIN ly : 2 * i + y >= 2 * T2_}))]
    IN  ESum(term, I)

\* P(X >= n) for a count X of the given law
prob_X_at_least(lx, n) == ESum(lx, {i \in DOMAIN lx : i >= n})

OfLaws == IsCall("step2failure_formal") /\ "law" \in DOMAIN call

====
